---- MODULE Spec2Model ----
(***************************************************************************)
(* Model of the zx type checker: the incremental reachability graph        *)
(* (src/src/reachability.rs), the polarized type store with flow and        *)
(* check_heads, the scoped binding environment and the script driver        *)
(* (src/src/ty.rs).                                                         *)
(*                                                                         *)
(* Node IDs are the code's usize indices, 0-based; a Vec is a sequence, so  *)
(* the element with ID i of a Vec v is v[i + 1].                            *)
(***************************************************************************)
EXTENDS Integers, Sequences, FiniteSets, TLC

VARIABLES
    r,                    \* Reachability: [upsets, downsets], one OrderedSet per node
    types,                \* TypeCheckerCore.types: the node table
    m,                    \* Bindings.m: name -> Value
    changes,              \* Bindings.changes: the undo journal
    pc,                   \* position of the running flow call (stepwise specification)
    work,                 \* add_edge's work stack
    pending_edges,        \* flow's pending_edges
    type_pairs_to_check,  \* flow's type_pairs_to_check
    scopes,               \* open in_child_scope calls: the n each captured, and the map then
    out,                  \* history: every pair add_edge appended to out, in order
    edges,                \* history: every (lhs, rhs) add_edge was called with, in order
    last,                 \* history: the most recent operation, its arguments and result
    prev,                 \* history: the operation before last
    ncalls                \* history: number of flow or check_script calls made

vars == <<r, types, m, changes, pc, work, pending_edges, type_pairs_to_check,
          scopes, out, edges, last, prev, ncalls>>

----------------------------------------------------------------------------
(* Bounds *)

MaxNodes == 3
MaxEdgeCalls == 3
MaxFields == 1
MaxFlows == 2
MaxDepth == 2
MaxCalls == 2
MaxHeadID == 1
MaxOrderNodes == 4
MaxOrderFlows == 1

----------------------------------------------------------------------------
(* Vec helpers *)

Range(s) == {s[i] : i \in 1..Len(s)}

Pop(s) == SubSeq(s, 1, Len(s) - 1)

Top(s) == s[Len(s)]

NoOp == [op |-> "none"]

----------------------------------------------------------------------------
(* reachability.rs *)

\* OrderedSet<T>: v is the sequence, s is its range.
OrderedSetInsert(os, value) ==
    IF value \in Range(os)
    THEN [set |-> os, new |-> FALSE]
    ELSE [set |-> Append(os, value), new |-> TRUE]

EmptyReachability == [upsets |-> <<>>, downsets |-> <<>>]

\* add_node: returns the new graph; the returned ID is Len(g.upsets).
add_node(g) ==
    [upsets |-> Append(g.upsets, <<>>), downsets |-> Append(g.downsets, <<>>)]

add_node_id(g) == Len(g.upsets)

\* A variant of the loop body that appends to out before testing the insertion.
add_edge_step_emit_first(ae) ==
    LET lhs == Top(ae.work)[1]
        rhs == Top(ae.work)[2]
        rest == Pop(ae.work)
        ins == OrderedSetInsert(ae.downsets[lhs + 1], rhs)
        out1 == Append(ae.out, <<lhs, rhs>>)
    IN  IF ~ins.new
        THEN [ae EXCEPT !.work = rest, !.out = out1]
        ELSE LET down1 == [ae.downsets EXCEPT ![lhs + 1] = ins.set]
                 up1 == [ae.upsets EXCEPT ![lhs + 1] = OrderedSetInsert(@, lhs).set]
             IN  [upsets |-> up1, downsets |-> down1, out |-> out1, panic |-> FALSE,
                  work |-> rest
                     \o [i \in 1..Len(up1[lhs + 1]) |-> <<up1[lhs + 1][i], rhs>>]
                     \o [i \in 1..Len(down1[rhs + 1]) |-> <<lhs, down1[rhs + 1][i]>>]]

\* A variant of the loop body that peeks at the work stack and leaves an entry
\* whose pair is already present on it.
add_edge_step_peek(ae) ==
    LET lhs == Top(ae.work)[1]
        rhs == Top(ae.work)[2]
        rest == Pop(ae.work)
        ins == OrderedSetInsert(ae.downsets[lhs + 1], rhs)
    IN  IF ~ins.new
        THEN ae
        ELSE LET down1 == [ae.downsets EXCEPT ![lhs + 1] = ins.set]
                 up1 == [ae.upsets EXCEPT ![lhs + 1] = OrderedSetInsert(@, lhs).set]
             IN  [upsets |-> up1, downsets |-> down1, panic |-> FALSE,
                  out |-> Append(ae.out, <<lhs, rhs>>),
                  work |-> rest
                     \o [i \in 1..Len(up1[lhs + 1]) |-> <<up1[lhs + 1][i], rhs>>]
                     \o [i \in 1..Len(down1[rhs + 1]) |-> <<lhs, down1[rhs + 1][i]>>]]

\* One iteration of add_edge's `while let Some((lhs, rhs)) = work.pop()` loop.
\* ae = [upsets, downsets, work, out, panic]; indexing a Vec out of range panics.
add_edge_step(ae) ==
    LET lhs == Top(ae.work)[1]
        rhs == Top(ae.work)[2]
        rest == Pop(ae.work)
    IN  IF lhs >= Len(ae.downsets)
        THEN [ae EXCEPT !.work = rest, !.panic = TRUE]
        ELSE
        LET ins == OrderedSetInsert(ae.downsets[lhs + 1], rhs)
        IN  IF ~ins.new
            THEN [ae EXCEPT !.work = rest]
            ELSE
            LET down1 == [ae.downsets EXCEPT ![lhs + 1] = ins.set]
                up1 == [ae.upsets EXCEPT ![lhs + 1] = OrderedSetInsert(@, lhs).set]
                out1 == Append(ae.out, <<lhs, rhs>>)
                work1 == rest \o [i \in 1..Len(up1[lhs + 1]) |-> <<up1[lhs + 1][i], rhs>>]
            IN  IF rhs >= Len(down1)
                THEN [upsets |-> up1, downsets |-> down1, out |-> out1,
                      work |-> work1, panic |-> TRUE]
                ELSE [upsets |-> up1, downsets |-> down1, out |-> out1, panic |-> FALSE,
                      work |-> work1
                         \o [i \in 1..Len(down1[rhs + 1]) |-> <<lhs, down1[rhs + 1][i]>>]]

RECURSIVE add_edge_loop(_)
add_edge_loop(ae) ==
    IF ae.panic \/ ae.work = <<>> THEN ae ELSE add_edge_loop(add_edge_step(ae))

\* A variant of add_edge that appends the initial pair to out before the loop
\* runs, whether or not the pair is new.
add_edge_emit_initial(g, lhs, rhs, o) ==
    add_edge_loop([upsets |-> g.upsets, downsets |-> g.downsets,
                   work |-> <<<<lhs, rhs>>>>, out |-> Append(o, <<lhs, rhs>>),
                   panic |-> FALSE])

\* add_edge(lhs, rhs, out) as one call: [upsets, downsets, work, out, panic] at return.
add_edge(g, lhs, rhs, o) ==
    add_edge_loop([upsets |-> g.upsets, downsets |-> g.downsets,
                   work |-> <<<<lhs, rhs>>>>, out |-> o, panic |-> FALSE])

NodeIDs(g) == 0..(Len(g.upsets) - 1)

downset(g, n) == Range(g.downsets[n + 1])

upset(g, n) == Range(g.upsets[n + 1])

----------------------------------------------------------------------------
(* ty.rs: type heads and check_heads *)

Names == {"a", "b"}

VBool == [h |-> "VBool"]
VFunc(arg, ret) == [h |-> "VFunc", arg |-> arg, ret |-> ret]
VObj(fields) == [h |-> "VObj", fields |-> fields]
VCase(c) == [h |-> "VCase", case |-> c]

UBool == [h |-> "UBool"]
UFunc(arg, ret) == [h |-> "UFunc", arg |-> arg, ret |-> ret]
UObj(field) == [h |-> "UObj", field |-> field]
UCase(cases) == [h |-> "UCase", cases |-> cases]

VarNode == [node |-> "Var"]
ValueNode(head) == [node |-> "Value", head |-> head]
UseNode(head) == [node |-> "Use", head |-> head]

Ok(o) == [ok |-> TRUE, out |-> o, err |-> "none"]
Bail(o, e) == [ok |-> FALSE, out |-> o, err |-> e]

\* A variant that emits the argument edge in the covariant direction.
check_heads_covariant_arg(lhs, rhs, o) ==
    CASE lhs.h = "VBool" /\ rhs.h = "UBool" -> Ok(o)
      [] lhs.h = "VFunc" /\ rhs.h = "UFunc" ->
            Ok(Append(Append(o, <<lhs.ret, rhs.ret>>), <<lhs.arg, rhs.arg>>))
      [] lhs.h = "VObj" /\ rhs.h = "UObj" ->
            IF rhs.field[1] \in DOMAIN lhs.fields
            THEN Ok(Append(o, <<lhs.fields[rhs.field[1]], rhs.field[2]>>))
            ELSE Bail(o, "Missing field")
      [] lhs.h = "VCase" /\ rhs.h = "UCase" ->
            IF lhs.case[1] \in DOMAIN rhs.cases
            THEN Ok(Append(o, <<lhs.case[2], rhs.cases[lhs.case[1]]>>))
            ELSE Bail(o, "Unhandled case")
      [] OTHER -> Bail(o, "Unexpected types")

\* check_heads(lhs, rhs, out): [ok, out, err]; the pairs pushed are (Value, Use) IDs.
check_heads(lhs, rhs, o) ==
    CASE lhs.h = "VBool" /\ rhs.h = "UBool" -> Ok(o)
      [] lhs.h = "VFunc" /\ rhs.h = "UFunc" ->
            Ok(Append(Append(o, <<lhs.ret, rhs.ret>>), <<rhs.arg, lhs.arg>>))
      [] lhs.h = "VObj" /\ rhs.h = "UObj" ->
            IF rhs.field[1] \in DOMAIN lhs.fields
            THEN Ok(Append(o, <<lhs.fields[rhs.field[1]], rhs.field[2]>>))
            ELSE Bail(o, "Missing field")
      [] lhs.h = "VCase" /\ rhs.h = "UCase" ->
            IF lhs.case[1] \in DOMAIN rhs.cases
            THEN Ok(Append(o, <<lhs.case[2], rhs.cases[lhs.case[1]]>>))
            ELSE Bail(o, "Unhandled case")
      [] OTHER -> Bail(o, "Unexpected types")

----------------------------------------------------------------------------
(* ty.rs: TypeCheckerCore *)

\* Vec<(String, X)>::into_iter().collect::<HashMap<_, _>>(): a later pair wins.
RECURSIVE collect(_)
collect(pairs) ==
    IF pairs = <<>> THEN <<>>
    ELSE LET init == collect(Pop(pairs))
             k == Top(pairs)[1]
         IN  [x \in (DOMAIN init) \cup {k} |-> IF x = k THEN Top(pairs)[2] ELSE init[x]]

\* The shared body of new_val, new_use and var: add_node, the lockstep assertion,
\* types.push. [r, types, id, panic].
new_node(c, node) ==
    [r |-> add_node(c.r),
     types |-> IF add_node_id(c.r) = Len(c.types) THEN Append(c.types, node) ELSE c.types,
     id |-> add_node_id(c.r),
     panic |-> add_node_id(c.r) # Len(c.types)]

new_val(c, val_type) == new_node(c, ValueNode(val_type))
new_use(c, constraint) == new_node(c, UseNode(constraint))
var(c) == new_node(c, VarNode)

bool(c) == new_val(c, VBool)
bool_use(c) == new_use(c, UBool)
func(c, arg, ret) == new_val(c, VFunc(arg, ret))
func_use(c, arg, ret) == new_use(c, UFunc(arg, ret))
obj(c, fields) == new_val(c, VObj(collect(fields)))
obj_use(c, field) == new_use(c, UObj(field))
case(c, cs) == new_val(c, VCase(cs))
case_use(c, cases) == new_use(c, UCase(collect(cases)))

\* A variant of the step that drops the error of check_heads (a missing `?`).
flow_step_ignore_err(f) ==
    CASE f.pc = "outer" ->
            IF f.pending_edges = <<>>
            THEN [f EXCEPT !.pc = "ok"]
            ELSE [f EXCEPT !.pending_edges = Pop(f.pending_edges),
                           !.work = <<Top(f.pending_edges)>>,
                           !.edges = Append(f.edges, Top(f.pending_edges)),
                           !.pc = "add_edge"]
      [] f.pc = "add_edge" ->
            IF f.work = <<>>
            THEN [f EXCEPT !.pc = "inner"]
            ELSE LET ae == add_edge_step([upsets |-> f.upsets, downsets |-> f.downsets,
                                          work |-> f.work, out |-> f.type_pairs_to_check,
                                          panic |-> FALSE])
                 IN  [f EXCEPT !.upsets = ae.upsets, !.downsets = ae.downsets,
                               !.work = ae.work, !.type_pairs_to_check = ae.out,
                               !.pc = IF ae.panic THEN "panic" ELSE "add_edge"]
      [] f.pc = "inner" ->
            IF f.type_pairs_to_check = <<>>
            THEN [f EXCEPT !.pc = "outer"]
            ELSE LET lhs == Top(f.type_pairs_to_check)[1]
                     rhs == Top(f.type_pairs_to_check)[2]
                     rest == Pop(f.type_pairs_to_check)
                 IN  IF lhs >= Len(f.types)
                     THEN [f EXCEPT !.type_pairs_to_check = rest, !.pc = "panic"]
                     ELSE IF f.types[lhs + 1].node # "Value"
                     THEN [f EXCEPT !.type_pairs_to_check = rest]
                     ELSE IF rhs >= Len(f.types)
                     THEN [f EXCEPT !.type_pairs_to_check = rest, !.pc = "panic"]
                     ELSE IF f.types[rhs + 1].node # "Use"
                     THEN [f EXCEPT !.type_pairs_to_check = rest]
                     ELSE LET res == check_heads(f.types[lhs + 1].head,
                                                 f.types[rhs + 1].head, f.pending_edges)
                          IN  [f EXCEPT !.type_pairs_to_check = rest,
                                        !.pending_edges = res.out,
                                        !.pc = "inner"]
      [] OTHER -> f

\* One step of flow. f = [upsets, downsets, types, work, type_pairs_to_check,
\* pending_edges, edges, pc]; pc is "outer" at the head of the outer while loop,
\* "add_edge" inside add_edge's loop, "inner" at the head of the inner while loop,
\* and "ok", "err" or "panic" once the call has ended.
flow_step(f) ==
    CASE f.pc = "outer" ->
            IF f.pending_edges = <<>>
            THEN [f EXCEPT !.pc = "ok"]
            ELSE [f EXCEPT !.pending_edges = Pop(f.pending_edges),
                           !.work = <<Top(f.pending_edges)>>,
                           !.edges = Append(f.edges, Top(f.pending_edges)),
                           !.pc = "add_edge"]
      [] f.pc = "add_edge" ->
            IF f.work = <<>>
            THEN [f EXCEPT !.pc = "inner"]
            ELSE LET ae == add_edge_step([upsets |-> f.upsets, downsets |-> f.downsets,
                                          work |-> f.work, out |-> f.type_pairs_to_check,
                                          panic |-> FALSE])
                 IN  [f EXCEPT !.upsets = ae.upsets, !.downsets = ae.downsets,
                               !.work = ae.work, !.type_pairs_to_check = ae.out,
                               !.pc = IF ae.panic THEN "panic" ELSE "add_edge"]
      [] f.pc = "inner" ->
            IF f.type_pairs_to_check = <<>>
            THEN [f EXCEPT !.pc = "outer"]
            ELSE LET lhs == Top(f.type_pairs_to_check)[1]
                     rhs == Top(f.type_pairs_to_check)[2]
                     rest == Pop(f.type_pairs_to_check)
                 IN  IF lhs >= Len(f.types)
                     THEN [f EXCEPT !.type_pairs_to_check = rest, !.pc = "panic"]
                     ELSE IF f.types[lhs + 1].node # "Value"
                     THEN [f EXCEPT !.type_pairs_to_check = rest]
                     ELSE IF rhs >= Len(f.types)
                     THEN [f EXCEPT !.type_pairs_to_check = rest, !.pc = "panic"]
                     ELSE IF f.types[rhs + 1].node # "Use"
                     THEN [f EXCEPT !.type_pairs_to_check = rest]
                     ELSE LET res == check_heads(f.types[lhs + 1].head,
                                                 f.types[rhs + 1].head, f.pending_edges)
                          IN  [f EXCEPT !.type_pairs_to_check = rest,
                                        !.pending_edges = res.out,
                                        !.pc = IF res.ok THEN "inner" ELSE "err"]
      [] OTHER -> f

FlowEnded(f) == f.pc \in {"ok", "err", "panic"}

\* The state of a flow(lhs, rhs) call on entry.
flow_begin(c, e, lhs, rhs) ==
    [upsets |-> c.r.upsets, downsets |-> c.r.downsets, types |-> c.types,
     work |-> <<>>, type_pairs_to_check |-> <<>>, pending_edges |-> << <<lhs, rhs>> >>,
     edges |-> e, pc |-> "outer"]

RECURSIVE flow_loop(_)
flow_loop(f) == IF FlowEnded(f) THEN f ELSE flow_loop(flow_step(f))

\* flow(lhs, rhs) as one call, on core c with add_edge history e.
flow(c, e, lhs, rhs) == flow_loop(flow_begin(c, e, lhs, rhs))

CoreOf(f) == [r |-> [upsets |-> f.upsets, downsets |-> f.downsets], types |-> f.types]

\* Handles the API hands out: Value(i) for variables and value heads, Use(i) for
\* variables and use heads.
Values(t) == {i \in 0..(Len(t) - 1) : t[i + 1].node \in {"Var", "Value"}}
Uses(t) == {i \in 0..(Len(t) - 1) : t[i + 1].node \in {"Var", "Use"}}
ValueHeads(t) == {i \in 0..(Len(t) - 1) : t[i + 1].node = "Value"}
UseHeads(t) == {i \in 0..(Len(t) - 1) : t[i + 1].node = "Use"}

----------------------------------------------------------------------------
(* ty.rs: Bindings. b = [m, changes]; m is a function from the bound names to *)
(* Value IDs, changes a sequence of <<name, prior>> with prior an Option.      *)

None == [some |-> FALSE]
Some(v) == [some |-> TRUE, v |-> v]

\* HashMap::insert and HashMap::remove
MapInsert(f, k, v) == [x \in (DOMAIN f) \cup {k} |-> IF x = k THEN v ELSE f[x]]
MapRemove(f, k) == [x \in (DOMAIN f) \ {k} |-> f[x]]

get(b, k) == IF k \in DOMAIN b.m THEN Some(b.m[k]) ELSE None

\* insert writes the map only; it pushes nothing onto changes.
insert(b, k, v) == [b EXCEPT !.m = MapInsert(b.m, k, v)]

RECURSIVE unwind(_, _)
unwind(b, n) ==
    IF Len(b.changes) > n
    THEN LET k == Top(b.changes)[1]
             old == Top(b.changes)[2]
         IN  unwind([m |-> IF old.some THEN MapInsert(b.m, k, old.v) ELSE MapRemove(b.m, k),
                     changes |-> Pop(b.changes)], n)
    ELSE b

\* in_child_scope(cb): n is changes.len() on entry, b the bindings once cb has run.
in_child_scope(n, b) == unwind(b, n)

----------------------------------------------------------------------------
(* ty.rs: the AST as check_toplevel and check_expr match on it *)

Literal == [e |-> "Literal"]
Variable(name) == [e |-> "Variable", name |-> name]
Record(fields) == [e |-> "Record", fields |-> fields]
Case(tag, val_expr) == [e |-> "Case", tag |-> tag, val |-> val_expr]
If(cond_expr, then_expr, else_expr) ==
    [e |-> "If", cond |-> cond_expr, then |-> then_expr, else |-> else_expr]
FieldAccess(lhs_expr, name) == [e |-> "FieldAccess", lhs |-> lhs_expr, name |-> name]
Match(match_expr, cases) == [e |-> "Match", match |-> match_expr, cases |-> cases]
FuncDef(arg_name, body_expr) == [e |-> "FuncDef", arg |-> arg_name, body |-> body_expr]
Call(func_expr, arg_expr) == [e |-> "Call", func |-> func_expr, arg |-> arg_expr]
Let(name, var_expr, rest_expr) ==
    [e |-> "Let", name |-> name, var |-> var_expr, rest |-> rest_expr]
LetRec(defs, rest_expr) == [e |-> "LetRec", defs |-> defs, rest |-> rest_expr]

Expr(expr) == [t |-> "Expr", expr |-> expr]
LetDef(name, var_expr) == [t |-> "LetDef", name |-> name, var |-> var_expr]
LetRecDef(defs) == [t |-> "LetRecDef", defs |-> defs]

----------------------------------------------------------------------------
(* ty.rs: check_expr, check_toplevel, check_script.                          *)
(* st = [r, types, m, changes, edges, ids] is the TypeckState; edges and ids   *)
(* are history: the add_edge calls made, and the IDs add_node returned during  *)
(* the running check_script call.                                             *)
(* A result is [st, status, val, err] with status "ok", "err" or "panic".     *)

Done(st, v) == [st |-> st, status |-> "ok", val |-> v, err |-> "none"]
Fail(st, e) == [st |-> st, status |-> "err", val |-> 0, err |-> e]
Panicked(st) == [st |-> st, status |-> "panic", val |-> 0, err |-> "panic"]

CoreOfSt(st) == [r |-> st.r, types |-> st.types]
BindingsOfSt(st) == [m |-> st.m, changes |-> st.changes]

\* engine.var(), engine.bool(), ...: n is the [r, types, id, panic] of the call.
Alloc(st, n) ==
    IF n.panic THEN [Panicked(st) EXCEPT !.err = "assertion"]
    ELSE Done([st EXCEPT !.r = n.r, !.types = n.types, !.ids = Append(@, n.id)], n.id)

\* The result of engine.flow(lhs, rhs), f being the call's final frame.
FlowResult(st, f) ==
    CASE f.pc = "ok" ->
            Done([st EXCEPT !.r = CoreOf(f).r, !.types = f.types, !.edges = f.edges], 0)
      [] f.pc = "err" ->
            Fail([st EXCEPT !.r = CoreOf(f).r, !.types = f.types, !.edges = f.edges], "flow")
      [] OTHER ->
            Panicked([st EXCEPT !.r = CoreOf(f).r, !.types = f.types, !.edges = f.edges])

\* engine.flow(lhs, rhs)
Flow(st, lhs, rhs) == FlowResult(st, flow(CoreOfSt(st), st.edges, lhs, rhs))

\* bindings.insert(k, v)
Insert(st, k, v) ==
    LET b == insert(BindingsOfSt(st), k, v)
    IN  [st EXCEPT !.m = b.m, !.changes = b.changes]

\* The end of bindings.in_child_scope(cb): res is what cb returned, n the journal
\* length on entry. A panic inside cb skips the unwind.
LeaveScope(n, res) ==
    IF res.status = "panic" THEN res
    ELSE LET b == in_child_scope(n, BindingsOfSt(res.st))
         IN  [res EXCEPT !.st = [res.st EXCEPT !.m = b.m, !.changes = b.changes]]

\* The `?` operator: an error or panic of res is returned at once, otherwise
\* the rest of the function body K runs on res.
Try(res, K(_)) == IF res.status # "ok" THEN res ELSE K(res)

RECURSIVE check_expr(_, _)
RECURSIVE record_fields(_, _, _, _, _)
RECURSIVE match_cases(_, _, _, _, _, _)
RECURSIVE predeclare(_, _, _, _)
RECURSIVE check_defs(_, _, _, _)

\* Record: the loop over fields from index i; val is field_type_pairs.
record_fields(st, fields, i, field_names, field_type_pairs) ==
    IF i > Len(fields) THEN Done(st, field_type_pairs)
    ELSE IF fields[i][1] \in field_names THEN Fail(st, "Repeated field name")
    ELSE Try(check_expr(st, fields[i][2]), LAMBDA t :
            record_fields(t.st, fields, i + 1, field_names \cup {fields[i][1]},
                          Append(field_type_pairs, <<fields[i][1], t.val>>)))

\* Match: the loop over cases ((tag, name), rhs_expr) from index i; val is
\* case_type_pairs.
match_cases(st, cases, i, case_names, case_type_pairs, result_bound) ==
    IF i > Len(cases) THEN Done(st, case_type_pairs)
    ELSE IF cases[i][1][2] \in case_names THEN Fail(st, "Repeated match case")
    ELSE
    Try(Alloc(st, var(CoreOfSt(st))), LAMBDA wrapped :
    Try(LeaveScope(Len(wrapped.st.changes),
                   check_expr(Insert(wrapped.st, cases[i][1][2], wrapped.val),
                              cases[i][2])), LAMBDA rhs :
    Try(Flow(rhs.st, rhs.val, result_bound), LAMBDA fl :
        match_cases(fl.st, cases, i + 1, case_names \cup {cases[i][1][2]},
                    Append(case_type_pairs, <<cases[i][1][1], wrapped.val>>),
                    result_bound))))

\* LetRec / LetRecDef: the first loop, which declares each name with a fresh
\* variable; val is temp_bounds.
predeclare(st, defs, i, temp_bounds) ==
    IF i > Len(defs) THEN Done(st, temp_bounds)
    ELSE Try(Alloc(st, var(CoreOfSt(st))), LAMBDA t :
            predeclare(Insert(t.st, defs[i][1], t.val), defs, i + 1,
                       Append(temp_bounds, t.val)))

\* LetRec / LetRecDef: the second loop, over defs zipped with temp_bounds.
check_defs(st, defs, temp_bounds, i) ==
    IF i > Len(defs) THEN Done(st, 0)
    ELSE Try(check_expr(st, defs[i][2]), LAMBDA v :
         Try(Flow(v.st, v.val, temp_bounds[i]), LAMBDA fl :
            check_defs(fl.st, defs, temp_bounds, i + 1)))

let_rec(st, defs) ==
    Try(predeclare(st, defs, 1, <<>>), LAMBDA p : check_defs(p.st, defs, p.val, 1))

check_expr(st, expr) ==
    CASE expr.e = "Literal" -> Alloc(st, bool(CoreOfSt(st)))
      [] expr.e = "Variable" ->
            IF get(BindingsOfSt(st), expr.name).some
            THEN Done(st, get(BindingsOfSt(st), expr.name).v)
            ELSE Fail(st, "Undefined variable")
      [] expr.e = "Record" ->
            Try(record_fields(st, expr.fields, 1, {}, <<>>), LAMBDA fs :
                Alloc(fs.st, obj(CoreOfSt(fs.st), fs.val)))
      [] expr.e = "Case" ->
            Try(check_expr(st, expr.val), LAMBDA v :
                Alloc(v.st, case(CoreOfSt(v.st), <<expr.tag, v.val>>)))
      [] expr.e = "If" ->
            Try(check_expr(st, expr.cond), LAMBDA c :
            Try(Alloc(c.st, bool_use(CoreOfSt(c.st))), LAMBDA bound :
            Try(Flow(bound.st, c.val, bound.val), LAMBDA f1 :
            Try(check_expr(f1.st, expr.then), LAMBDA th :
            Try(check_expr(th.st, expr.else), LAMBDA el :
            Try(Alloc(el.st, var(CoreOfSt(el.st))), LAMBDA merged :
            Try(Flow(merged.st, th.val, merged.val), LAMBDA f2 :
            Try(Flow(f2.st, el.val, merged.val), LAMBDA f3 :
                Done(f3.st, merged.val)))))))))
      [] expr.e = "FieldAccess" ->
            Try(check_expr(st, expr.lhs), LAMBDA l :
            Try(Alloc(l.st, var(CoreOfSt(l.st))), LAMBDA field :
            Try(Alloc(field.st, obj_use(CoreOfSt(field.st), <<expr.name, field.val>>)),
                LAMBDA bound :
            Try(Flow(bound.st, l.val, bound.val), LAMBDA fl :
                Done(fl.st, field.val)))))
      [] expr.e = "Match" ->
            Try(check_expr(st, expr.match), LAMBDA mt :
            Try(Alloc(mt.st, var(CoreOfSt(mt.st))), LAMBDA result :
            Try(match_cases(result.st, expr.cases, 1, {}, <<>>, result.val), LAMBDA cs :
            Try(Alloc(cs.st, case_use(CoreOfSt(cs.st), cs.val)), LAMBDA bound :
            Try(Flow(bound.st, mt.val, bound.val), LAMBDA fl :
                Done(fl.st, result.val))))))
      [] expr.e = "FuncDef" ->
            Try(Alloc(st, var(CoreOfSt(st))), LAMBDA a :
            Try(LeaveScope(Len(a.st.changes),
                           check_expr(Insert(a.st, expr.arg, a.val), expr.body)),
                LAMBDA body :
                Alloc(body.st, func(CoreOfSt(body.st), a.val, body.val))))
      [] expr.e = "Call" ->
            Try(check_expr(st, expr.func), LAMBDA fn :
            Try(check_expr(fn.st, expr.arg), LAMBDA a :
            Try(Alloc(a.st, var(CoreOfSt(a.st))), LAMBDA ret :
            Try(Alloc(ret.st, func_use(CoreOfSt(ret.st), a.val, ret.val)), LAMBDA bound :
            Try(Flow(bound.st, fn.val, bound.val), LAMBDA fl :
                Done(fl.st, ret.val))))))
      [] expr.e = "Let" ->
            Try(check_expr(st, expr.var), LAMBDA v :
                LeaveScope(Len(v.st.changes),
                           check_expr(Insert(v.st, expr.name, v.val), expr.rest)))
      [] expr.e = "LetRec" ->
            LeaveScope(Len(st.changes),
                       Try(let_rec(st, expr.defs), LAMBDA ds :
                           check_expr(ds.st, expr.rest)))

check_toplevel(st, def) ==
    CASE def.t = "Expr" ->
            Try(check_expr(st, def.expr), LAMBDA v : Done(v.st, 0))
      [] def.t = "LetDef" ->
            Try(check_expr(st, def.var), LAMBDA v :
                Done(Insert(v.st, def.name, v.val), 0))
      [] def.t = "LetRecDef" -> let_rec(st, def.defs)

\* check_script's loop over the items from index i; val is the number of items
\* that were checked successfully.
RECURSIVE script_items(_, _, _)
script_items(st, parsed, i) ==
    IF i > Len(parsed) THEN Done(st, i - 1)
    ELSE LET t == check_toplevel(st, parsed[i])
         IN  IF t.status # "ok" THEN [t EXCEPT !.val = i - 1]
             ELSE script_items(t.st, parsed, i + 1)

\* The end of check_script without the swap: the error is returned and the
\* journal unwound, the core is left as the failed script made it.
script_end_no_swap(temp, res) ==
    CASE res.status = "ok" -> [res EXCEPT !.st = [res.st EXCEPT !.changes = <<>>]]
      [] res.status = "err" ->
            [res EXCEPT !.st = [res.st EXCEPT
                                   !.m = unwind(BindingsOfSt(res.st), 0).m,
                                   !.changes = unwind(BindingsOfSt(res.st), 0).changes]]
      [] OTHER -> res

\* The end of check_script with a rollback that clears the bindings instead of
\* unwinding them.
script_end_reset_bindings(temp, res) ==
    CASE res.status = "ok" -> [res EXCEPT !.st = [res.st EXCEPT !.changes = <<>>]]
      [] res.status = "err" ->
            [res EXCEPT !.st = [r |-> temp.r, types |-> temp.types, edges |-> temp.edges,
                                ids |-> res.st.ids, m |-> <<>>, changes |-> <<>>]]
      [] OTHER -> res

\* The end of check_script with a rollback that swaps the node table back in
\* but leaves the reachability graph as the failed script made it.
script_end_types_only(temp, res) ==
    CASE res.status = "ok" -> [res EXCEPT !.st = [res.st EXCEPT !.changes = <<>>]]
      [] res.status = "err" ->
            [res EXCEPT !.st = [r |-> res.st.r, types |-> temp.types, edges |-> temp.edges,
                                ids |-> res.st.ids,
                                m |-> unwind(BindingsOfSt(res.st), 0).m,
                                changes |-> unwind(BindingsOfSt(res.st), 0).changes]]
      [] OTHER -> res

\* The end of check_script, res being the outcome of the loop and temp the clone
\* of the core taken on entry: on an error the clone is swapped back in (the
\* history edges with it) and the journal unwound to 0; on success the journal
\* is cleared.
script_end(temp, res) ==
    CASE res.status = "ok" -> [res EXCEPT !.st = [res.st EXCEPT !.changes = <<>>]]
      [] res.status = "err" ->
            [res EXCEPT !.st = [r |-> temp.r, types |-> temp.types, edges |-> temp.edges,
                                ids |-> res.st.ids,
                                m |-> unwind(BindingsOfSt(res.st), 0).m,
                                changes |-> unwind(BindingsOfSt(res.st), 0).changes]]
      [] OTHER -> res

check_script(st, parsed) ==
    script_end([r |-> st.r, types |-> st.types, edges |-> st.edges],
               script_items(st, parsed, 1))

----------------------------------------------------------------------------
(* The reachability graph on its own: add_node and add_edge in any order *)

InitGraph ==
    /\ r = EmptyReachability
    /\ types = <<>>
    /\ m = <<>>
    /\ changes = <<>>
    /\ pc = "idle"
    /\ work = <<>>
    /\ pending_edges = <<>>
    /\ type_pairs_to_check = <<>>
    /\ scopes = <<>>
    /\ out = <<>>
    /\ edges = <<>>
    /\ last = NoOp
    /\ prev = NoOp
    /\ ncalls = 0

GraphAddNode ==
    /\ Len(r.upsets) < MaxNodes
    /\ r' = add_node(r)
    /\ last' = [op |-> "add_node", id |-> add_node_id(r)]
    /\ UNCHANGED <<types, m, changes, pc, work, pending_edges, type_pairs_to_check,
                   scopes, out, edges, prev, ncalls>>

GraphAddEdge ==
    /\ Len(edges) < MaxEdgeCalls
    /\ \E lhs \in NodeIDs(r), rhs \in NodeIDs(r) :
          LET res == add_edge(r, lhs, rhs, out)
          IN  /\ r' = [upsets |-> res.upsets, downsets |-> res.downsets]
              /\ out' = res.out
              /\ edges' = Append(edges, <<lhs, rhs>>)
              /\ last' = [op |-> "add_edge", lhs |-> lhs, rhs |-> rhs,
                          emitted |-> SubSeq(res.out, Len(out) + 1, Len(res.out)),
                          pre |-> r]
    /\ UNCHANGED <<types, m, changes, pc, work, pending_edges, type_pairs_to_check,
                   scopes, prev, ncalls>>

NextGraph == GraphAddNode \/ GraphAddEdge

SpecGraph == InitGraph /\ [][NextGraph]_vars

----------------------------------------------------------------------------
(* The type store: node creation and flow calls in any order. A failed flow   *)
(* leaves partial edges behind and its caller discards the store, so nothing  *)
(* runs on the store after a failure.                                         *)

SeqsUpTo(S, n) == UNION {[1..k -> S] : k \in 0..n}

DistinctNames(pairs) ==
    \A i \in 1..Len(pairs), j \in 1..Len(pairs) : pairs[i][1] = pairs[j][1] => i = j

InitCore == InitGraph

Healthy == pc = "idle" /\ ~(last.op = "flow" /\ ~last.ok)

CoreUsable == Healthy /\ Len(types) < MaxNodes

\* The effect of a node-creating operation whose result is n = [r, types, id, panic].
Created(name, n) ==
    /\ r' = n.r
    /\ types' = n.types
    /\ last' = [op |-> name, id |-> n.id, panic |-> n.panic]
    /\ prev' = last
    /\ UNCHANGED <<m, changes, pc, work, pending_edges, type_pairs_to_check,
                   scopes, out, edges, ncalls>>

Core == [r |-> r, types |-> types]

CoreVar == CoreUsable /\ Created("var", var(Core))

CoreBool == CoreUsable /\ Created("bool", bool(Core))

CoreBoolUse == CoreUsable /\ Created("bool_use", bool_use(Core))

CoreFunc ==
    /\ CoreUsable
    /\ \E arg \in Uses(types), ret \in Values(types) :
          Created("func", func(Core, arg, ret))

CoreFuncUse ==
    /\ CoreUsable
    /\ \E arg \in Values(types), ret \in Uses(types) :
          Created("func_use", func_use(Core, arg, ret))

CoreObj ==
    /\ CoreUsable
    /\ \E fields \in SeqsUpTo(Names \X Values(types), MaxFields) :
          /\ DistinctNames(fields)
          /\ Created("obj", obj(Core, fields))

CoreObjUse ==
    /\ CoreUsable
    /\ \E name \in Names, u \in Uses(types) :
          Created("obj_use", obj_use(Core, <<name, u>>))

CoreCase ==
    /\ CoreUsable
    /\ \E tag \in Names, v \in Values(types) :
          Created("case", case(Core, <<tag, v>>))

CoreCaseUse ==
    /\ CoreUsable
    /\ \E cases \in SeqsUpTo(Names \X Uses(types), MaxFields) :
          Created("case_use", case_use(Core, cases))

CoreFlow ==
    /\ Healthy
    /\ ncalls < MaxFlows
    /\ \E lhs \in Values(types), rhs \in Uses(types) :
          LET f == flow(Core, edges, lhs, rhs)
          IN  /\ r' = CoreOf(f).r
              /\ types' = f.types
              /\ edges' = f.edges
              /\ last' = [op |-> "flow", lhs |-> lhs, rhs |-> rhs, ok |-> f.pc = "ok",
                          panic |-> f.pc = "panic", pre |-> Core, pre_edges |-> edges]
    /\ prev' = last
    /\ ncalls' = ncalls + 1
    /\ UNCHANGED <<m, changes, pc, work, pending_edges, type_pairs_to_check,
                   scopes, out>>

NextCore ==
    \/ CoreVar \/ CoreBool \/ CoreBoolUse \/ CoreFunc \/ CoreFuncUse
    \/ CoreObj \/ CoreObjUse \/ CoreCase \/ CoreCaseUse \/ CoreFlow

SpecCore == InitCore /\ [][NextCore]_vars

\* Reference reachability: the nodes reachable from the set S along the edges E
\* (S included).
RECURSIVE ReachableFrom(_, _)
ReachableFrom(S, E) ==
    LET T == S \cup {e[2] : e \in {x \in E : x[1] \in S}}
    IN  IF T = S THEN S ELSE ReachableFrom(T, E)

Reaches(a, b, E) == b \in ReachableFrom({a}, E)

Compatible(t, V, U) == check_heads(t[V + 1].head, t[U + 1].head, <<>>).ok

\* C1: at the return of a successful flow(v, u), every value head V from which v
\* is reachable along the edges installed so far and every use head U reachable
\* from u form a pair the check_heads rules accept.
C1_FlowSound ==
    (last.op = "flow" /\ last.ok) =>
        \A V \in ValueHeads(types), U \in UseHeads(types) :
            (Reaches(V, last.lhs, Range(edges)) /\ Reaches(last.rhs, U, Range(edges)))
                => Compatible(types, V, U)

SameSets(c1, c2) ==
    /\ c1.types = c2.types
    /\ Len(c1.r.upsets) = Len(c2.r.upsets)
    /\ \A n \in NodeIDs(c1.r) :
          /\ downset(c1.r, n) = downset(c2.r, n)
          /\ upset(c1.r, n) = upset(c2.r, n)

\* C8: two flow calls that succeed in both orders leave the same node table and
\* the same downset and upset (as sets) for every node, whichever runs first.
\* The state holds the result of flow(v1, u1); flow(v2, u2) run from prev.pre;
\* the reverse order is run from the same store.
C8_FlowsCommute ==
    (last.op = "flow" /\ last.ok /\ prev.op = "flow" /\ prev.ok) =>
        LET f2 == flow(prev.pre, prev.pre_edges, last.lhs, last.rhs)
            f21 == flow(CoreOf(f2), f2.edges, prev.lhs, prev.rhs)
        IN  (f2.pc = "ok" /\ f21.pc = "ok") => SameSets(Core, CoreOf(f21))

\* C13: at the return of a successful flow, every value head V and use head U
\* with U in downset[V] form a pair that check_heads accepts, and every sub-edge
\* (x, y) check_heads emits for them has been issued to add_edge and installed
\* (y is in downset[x]).
C13_PairsChecked ==
    (last.op = "flow" /\ last.ok) =>
        \A V \in ValueHeads(types), U \in UseHeads(types) :
            U \in downset(r, V) =>
                /\ Compatible(types, V, U)
                /\ \A p \in Range(check_heads(types[V + 1].head, types[U + 1].head, <<>>).out) :
                      /\ p \in Range(edges)
                      /\ p[2] \in downset(r, p[1])

\* C13 witness: a successful flow has put a use head into the downset of a
\* value head whose pair decomposes into sub-edges.
C13_Witness ==
    /\ last.op = "flow" /\ last.ok
    /\ \E V \in ValueHeads(types), U \in UseHeads(types) :
          /\ U \in downset(r, V)
          /\ check_heads(types[V + 1].head, types[U + 1].head, <<>>).out # <<>>

----------------------------------------------------------------------------
(* The type store with flow run one loop iteration at a time: the call, each  *)
(* iteration of the three loops (flow_step), and the return. The thread runs  *)
(* a started call without suspension, hence the fairness on FlowStep.         *)

InitFlow == InitGraph

Frame ==
    [upsets |-> r.upsets, downsets |-> r.downsets, types |-> types, work |-> work,
     type_pairs_to_check |-> type_pairs_to_check, pending_edges |-> pending_edges,
     edges |-> edges, pc |-> pc]

FlowCall ==
    /\ Healthy
    /\ ncalls < MaxFlows
    /\ \E lhs \in Values(types), rhs \in Uses(types) :
          LET f == flow_begin(Core, edges, lhs, rhs)
          IN  /\ pc' = f.pc
              /\ pending_edges' = f.pending_edges
              /\ work' = f.work
              /\ type_pairs_to_check' = f.type_pairs_to_check
              /\ last' = [op |-> "call", lhs |-> lhs, rhs |-> rhs, pre |-> Core,
                          pre_edges |-> edges]
    /\ prev' = last
    /\ ncalls' = ncalls + 1
    /\ UNCHANGED <<r, types, m, changes, scopes, out, edges>>

FlowStep ==
    /\ pc \in {"outer", "add_edge", "inner"}
    /\ \E f \in {flow_step(Frame)} :
          /\ r' = CoreOf(f).r
          /\ types' = f.types
          /\ work' = f.work
          /\ type_pairs_to_check' = f.type_pairs_to_check
          /\ pending_edges' = f.pending_edges
          /\ edges' = f.edges
          /\ pc' = f.pc
    /\ UNCHANGED <<m, changes, scopes, out, last, prev, ncalls>>

\* The return drops the two worklists.
FlowReturn ==
    /\ pc \in {"ok", "err"}
    /\ pc' = "idle"
    /\ work' = <<>>
    /\ pending_edges' = <<>>
    /\ type_pairs_to_check' = <<>>
    /\ last' = [op |-> "flow", lhs |-> last.lhs, rhs |-> last.rhs, ok |-> pc = "ok",
                panic |-> FALSE, pre |-> last.pre, pre_edges |-> last.pre_edges]
    /\ UNCHANGED <<r, types, m, changes, scopes, out, edges, prev, ncalls>>

NextFlow ==
    \/ CoreVar \/ CoreBool \/ CoreBoolUse \/ CoreFunc \/ CoreFuncUse
    \/ CoreObj \/ CoreObjUse \/ CoreCase \/ CoreCaseUse
    \/ FlowCall \/ FlowStep \/ FlowReturn

SpecFlow == InitFlow /\ [][NextFlow]_vars /\ WF_vars(FlowStep)

\* C9: every flow call terminates, with success or an error, and at a
\* successful end the work stack and both worklists are empty.
C9_FlowTerminates ==
    (pc = "outer") ~>
        \/ pc = "err"
        \/ pc = "ok" /\ work = <<>> /\ pending_edges = <<>> /\ type_pairs_to_check = <<>>

\* C9 witness: a flow call has ended in success after closing a cycle between
\* two nodes of the constraint graph.
C9_Witness ==
    /\ pc = "ok"
    /\ \E a \in NodeIDs(r), b \in NodeIDs(r) :
          a # b /\ b \in downset(r, a) /\ a \in downset(r, b)

----------------------------------------------------------------------------
(* One flow call whose two worklists are processed in any order: at the head  *)
(* of the outer loop any entry of pending_edges is taken, at the head of the   *)
(* inner loop any entry of type_pairs_to_check, where the code takes the last. *)
(* The store holds variables, booleans and functions: a function pair is the   *)
(* only one for which check_heads pushes more than one pending edge.           *)

MoveToTop(s, k) == SubSeq(s, 1, k - 1) \o SubSeq(s, k + 1, Len(s)) \o <<s[k]>>

\* flow_step with the k-th entry of the worklist at hand taken instead of the last.
flow_step_at(f, k) ==
    CASE f.pc = "outer" /\ f.pending_edges # <<>> ->
            flow_step([f EXCEPT !.pending_edges = MoveToTop(@, k)])
      [] f.pc = "inner" /\ f.type_pairs_to_check # <<>> ->
            flow_step([f EXCEPT !.type_pairs_to_check = MoveToTop(@, k)])
      [] OTHER -> flow_step(f)

\* The entries flow_step_at can take in frame f.
Choices(f) ==
    CASE f.pc = "outer" /\ f.pending_edges # <<>> -> 1..Len(f.pending_edges)
      [] f.pc = "inner" /\ f.type_pairs_to_check # <<>> -> 1..Len(f.type_pairs_to_check)
      [] OTHER -> {1}

InitOrder == InitGraph

OrderUsable == Healthy /\ Len(types) < MaxOrderNodes

OrderVar == OrderUsable /\ Created("var", var(Core))

OrderBool == OrderUsable /\ Created("bool", bool(Core))

OrderBoolUse == OrderUsable /\ Created("bool_use", bool_use(Core))

OrderFunc ==
    /\ OrderUsable
    /\ \E arg \in Uses(types), ret \in Values(types) :
          Created("func", func(Core, arg, ret))

OrderFuncUse ==
    /\ OrderUsable
    /\ \E arg \in Values(types), ret \in Uses(types) :
          Created("func_use", func_use(Core, arg, ret))

OrderCall ==
    /\ Healthy
    /\ ncalls < MaxOrderFlows
    /\ \E lhs \in Values(types), rhs \in Uses(types) :
          \E f \in {flow_begin(Core, edges, lhs, rhs)} :
              /\ pc' = f.pc
              /\ pending_edges' = f.pending_edges
              /\ work' = f.work
              /\ type_pairs_to_check' = f.type_pairs_to_check
              /\ last' = [op |-> "call", lhs |-> lhs, rhs |-> rhs, pre |-> Core,
                          pre_edges |-> edges]
    /\ prev' = last
    /\ ncalls' = ncalls + 1
    /\ UNCHANGED <<r, types, m, changes, scopes, out, edges>>

OrderStep ==
    /\ pc \in {"outer", "add_edge", "inner"}
    /\ \E k \in Choices(Frame) :
          \E f \in {flow_step_at(Frame, k)} :
              /\ r' = CoreOf(f).r
              /\ types' = f.types
              /\ work' = f.work
              /\ type_pairs_to_check' = f.type_pairs_to_check
              /\ pending_edges' = f.pending_edges
              /\ edges' = f.edges
              /\ pc' = f.pc
    /\ UNCHANGED <<m, changes, scopes, out, last, prev, ncalls>>

NextOrder ==
    \/ OrderVar \/ OrderBool \/ OrderBoolUse \/ OrderFunc \/ OrderFuncUse
    \/ OrderCall \/ OrderStep \/ FlowReturn

SpecOrder == InitOrder /\ [][NextOrder]_vars

\* C19: whatever order the entries of pending_edges and type_pairs_to_check
\* are taken in, a flow call ends with the same outcome as in the code's order
\* (the last entry first) and, on success, with the same upset and downset for
\* every node; so all orders agree.
C19_OrderUnobservable ==
    (pc \in {"ok", "err"} /\ last.op = "call") =>
        LET f == flow(last.pre, last.pre_edges, last.lhs, last.rhs)
        IN  /\ (pc = "ok") <=> (f.pc = "ok")
            /\ (pc = "ok") => SameSets(Core, CoreOf(f))

----------------------------------------------------------------------------
(* The binding environment on its own: inserts and in_child_scope calls,     *)
(* nested in any way. scopes holds, for each open in_child_scope call, the n  *)
(* it captured and (history) the map on entry.                                *)

BindNames == {"x", "y"}

BindValues == 0..1

InitBindings == InitGraph

Bindings == [m |-> m, changes |-> changes]

BindInsert ==
    /\ \E k \in BindNames, v \in BindValues :
          LET b == insert(Bindings, k, v)
          IN  /\ m' = b.m
              /\ changes' = b.changes
              /\ last' = [op |-> "insert", k |-> k, v |-> v, depth |-> Len(scopes),
                          pre |-> Bindings]
    /\ UNCHANGED <<r, types, pc, work, pending_edges, type_pairs_to_check,
                   scopes, out, edges, prev, ncalls>>

ScopeEnter ==
    /\ Len(scopes) < MaxDepth
    /\ scopes' = Append(scopes, [n |-> Len(changes), m |-> m])
    /\ last' = [op |-> "enter"]
    /\ UNCHANGED <<r, types, m, changes, pc, work, pending_edges, type_pairs_to_check,
                   out, edges, prev, ncalls>>

\* The body returns, with success or an error; in_child_scope unwinds either way.
ScopeExit ==
    /\ scopes # <<>>
    /\ \E ok \in BOOLEAN :
          LET b == in_child_scope(Top(scopes).n, Bindings)
          IN  /\ m' = b.m
              /\ changes' = b.changes
              /\ last' = [op |-> "in_child_scope", ok |-> ok,
                          before |-> Top(scopes).m, body |-> m, after |-> b.m]
    /\ scopes' = Pop(scopes)
    /\ UNCHANGED <<r, types, pc, work, pending_edges, type_pairs_to_check,
                   out, edges, prev, ncalls>>

NextBindings == BindInsert \/ ScopeEnter \/ ScopeExit

SpecBindings == InitBindings /\ [][NextBindings]_vars

\* C7: scope balance. At the return of in_child_scope(body) the binding map
\* equals the map on entry, whatever body inserted and whether it failed.
C7_ScopeBalance ==
    last.op = "in_child_scope" => last.after = last.before

\* C18: insert(name, value) appends exactly one entry (name, prior) to the
\* journal, prior being the binding name had before the call or None, and then
\* binds name to value.
C18_InsertJournals ==
    last.op = "insert" =>
        /\ changes = Append(last.pre.changes, <<last.k, get(last.pre, last.k)>>)
        /\ get(Bindings, last.k) = Some(last.v)

----------------------------------------------------------------------------
(* The checker as its caller sees it: TypeckState::new() and then             *)
(* check_script calls, each on a script of the catalogue. A panic ends the    *)
(* run.                                                                       *)

IdentityFn == FuncDef("x", Variable("x"))

RecursiveFn == FuncDef("x", Call(Variable("f"), Variable("x")))

Scripts ==
    { \* let x = true in x
      << Expr(Let("x", Literal, Variable("x"))) >>,
      \* if true then true else false
      << Expr(If(Literal, Literal, Literal)) >>,
      \* (fun x -> x) true
      << Expr(Call(IdentityFn, Literal)) >>,
      \* {a = true; a = false}
      << Expr(Record(<< <<"a", Literal>>, <<"a", Literal>> >>)) >>,
      \* {a = true}.b
      << Expr(FieldAccess(Record(<< <<"a", Literal>> >>), "b")) >>,
      \* match `a true with | `b y -> y
      << Expr(Match(Case("a", Literal), << << <<"b", "y">>, Variable("y") >> >>)) >>,
      \* match `a true with | `a y -> y
      << Expr(Match(Case("a", Literal), << << <<"a", "y">>, Variable("y") >> >>)) >>,
      \* let rec f = fun x -> f x in f true
      << Expr(LetRec(<< <<"f", RecursiveFn>> >>, Call(Variable("f"), Literal))) >>,
      \* let x = true; let y = x.b
      << LetDef("x", Literal), LetDef("y", FieldAccess(Variable("x"), "b")) >>,
      \* let x = true
      << LetDef("x", Literal) >>,
      \* let x = {a = true}; let y = x.a
      << LetDef("x", Record(<< <<"a", Literal>> >>)),
         LetDef("y", FieldAccess(Variable("x"), "a")) >>,
      \* let x = {a = true}; x.a; let y = x.b
      << LetDef("x", Record(<< <<"a", Literal>> >>)),
         Expr(FieldAccess(Variable("x"), "a")),
         LetDef("y", FieldAccess(Variable("x"), "b")) >>,
      \* let rec f = fun x -> f x
      << LetRecDef(<< <<"f", RecursiveFn>> >>) >>,
      \* let rec f = fun x -> f x; f.a
      << LetRecDef(<< <<"f", RecursiveFn>> >>), Expr(FieldAccess(Variable("f"), "a")) >>,
      \* x
      << Expr(Variable("x")) >>,
      \* let y = x.a
      << LetDef("y", FieldAccess(Variable("x"), "a")) >>,
      \* if x then true else true
      << Expr(If(Variable("x"), Literal, Literal)) >>,
      \* let x = fun x -> x in y
      << Expr(Let("x", IdentityFn, Variable("y"))) >> }

Init == InitGraph

State ==
    [r |-> r, types |-> types, m |-> m, changes |-> changes, edges |-> edges,
     ids |-> <<>>]

\* The names a script defines at top level (LetDef and LetRecDef items).
TopNames(parsed) ==
    UNION {IF parsed[i].t = "LetDef" THEN {parsed[i].name}
           ELSE IF parsed[i].t = "LetRecDef"
           THEN {parsed[i].defs[j][1] : j \in 1..Len(parsed[i].defs)}
           ELSE {} : i \in 1..Len(parsed)}

\* History: the names defined at top level by the scripts that have succeeded.
Committed == IF last.op = "check_script" THEN last.committed ELSE {}

CheckScript ==
    /\ ncalls < MaxCalls
    /\ ~(last.op = "check_script" /\ last.status = "panic")
    /\ \E parsed \in Scripts :
          \E res \in {check_script(State, parsed)} :
              /\ r' = res.st.r
              /\ types' = res.st.types
              /\ m' = res.st.m
              /\ changes' = res.st.changes
              /\ edges' = res.st.edges
              /\ last' = [op |-> "check_script", parsed |-> parsed,
                          status |-> res.status, err |-> res.err, done |-> res.val,
                          pre |-> State, ids |-> res.st.ids,
                          committed |-> IF res.status = "ok"
                                        THEN Committed \cup TopNames(parsed)
                                        ELSE Committed]
    /\ prev' = last
    /\ ncalls' = ncalls + 1
    /\ UNCHANGED <<pc, work, pending_edges, type_pairs_to_check, scopes, out>>

Next == CheckScript

Spec == Init /\ [][Next]_vars

\* C5: when check_script returns an error, the node table and every node's
\* upset and downset are exactly what they were before the call.
C5_ErrorRestoresStore ==
    (last.op = "check_script" /\ last.status = "err") =>
        /\ types = last.pre.types
        /\ r = last.pre.r

\* C5 witness: a script failed after at least one of its items had succeeded
\* and added nodes and edges, on a store that an earlier script had filled.
C5_Witness ==
    /\ last.op = "check_script" /\ last.status = "err"
    /\ last.done >= 1
    /\ Len(last.pre.types) > 0
    /\ \E n \in NodeIDs(r) : r.downsets[n + 1] # <<>>

\* C6: when check_script returns an error, the binding map equals the map
\* before the call.
C6_ErrorRestoresBindings ==
    (last.op = "check_script" /\ last.status = "err") => m = last.pre.m

\* C11: after check_script returns success the binding journal is empty and
\* every name the script defines at top level is bound; every name so defined
\* by a successful script is still bound after every later check_script call,
\* failed ones included.
C11_CommittedStayBound ==
    last.op = "check_script" =>
        /\ last.status = "ok" => (changes = <<>> /\ TopNames(last.parsed) \subseteq DOMAIN m)
        /\ last.committed \subseteq DOMAIN m

\* C11 witness: a script that defines a name succeeded, and the next script
\* failed after one of its items had inserted a binding.
C11_Witness ==
    /\ prev.op = "check_script" /\ prev.status = "ok" /\ TopNames(prev.parsed) # {}
    /\ last.op = "check_script" /\ last.status = "err"
    /\ \E i \in 1..last.done : last.parsed[i].t \in {"LetDef", "LetRecDef"}

\* C12: the reachability graph and the node table grow in lockstep, the
\* assertion of new_val / new_use / var never fails, also after a rollback, and
\* the IDs handed out during one check_script call are strictly increasing.
C12_Lockstep ==
    /\ Len(r.upsets) = Len(types)
    /\ Len(r.downsets) = Len(types)
    /\ last.op = "check_script" =>
          /\ last.err # "assertion"
          /\ \A i \in 1..Len(last.ids), j \in 1..Len(last.ids) :
                i < j => last.ids[i] < last.ids[j]

\* C12 witness: a script created nodes and failed, so they were rolled back,
\* and the next script created several nodes and succeeded.
C12_Witness ==
    /\ prev.op = "check_script" /\ prev.status = "err" /\ prev.ids # <<>>
    /\ last.op = "check_script" /\ last.status = "ok" /\ Len(last.ids) >= 2
    /\ last.ids[1] < prev.ids[Len(prev.ids)] + 1

\* The Value and Use handles stored inside a node of the node table.
HandlesOf(node) ==
    IF node.node = "Var" THEN {}
    ELSE CASE node.head.h \in {"VBool", "UBool"} -> {}
           [] node.head.h \in {"VFunc", "UFunc"} -> {node.head.arg, node.head.ret}
           [] node.head.h = "VObj" -> Range(node.head.fields)
           [] node.head.h = "VCase" -> {node.head.case[2]}
           [] node.head.h = "UObj" -> {node.head.field[2]}
           [] node.head.h = "UCase" -> Range(node.head.cases)

\* C20: no dangling handles. After any sequence of check_script calls every
\* handle in the binding map and every handle inside a head node is smaller
\* than the length of the node table, a binding the last call left alone still
\* refers to the node it referred to before the call, and no call has indexed
\* the node table or the reachability sets out of range (a panic).
C20_NoDanglingHandles ==
    /\ \A k \in DOMAIN m : m[k] < Len(types)
    /\ \A i \in 1..Len(types) : \A h \in HandlesOf(types[i]) : h < Len(types)
    /\ last.op = "check_script" =>
          /\ last.status # "panic"
          /\ \A k \in (DOMAIN m) \cap (DOMAIN last.pre.m) :
                (m[k] = last.pre.m[k] /\ m[k] < Len(types) /\ m[k] < Len(last.pre.types))
                    => types[m[k] + 1] = last.pre.types[m[k] + 1]

----------------------------------------------------------------------------
(* check_heads on its own: a value head, a use head and the content of the   *)
(* out list are drawn, then check_heads is applied to them.                   *)

HeadIDs == 0..MaxHeadID

Maps(D, R) == UNION {[S -> R] : S \in SUBSET D}

AllVHeads ==
    {VBool} \cup {VFunc(a, b) : a \in HeadIDs, b \in HeadIDs}
            \cup {VObj(f) : f \in Maps(Names, HeadIDs)}
            \cup {VCase(<<n, v>>) : n \in Names, v \in HeadIDs}

AllUHeads ==
    {UBool} \cup {UFunc(a, b) : a \in HeadIDs, b \in HeadIDs}
            \cup {UObj(<<n, u>>) : n \in Names, u \in HeadIDs}
            \cup {UCase(c) : c \in Maps(Names, HeadIDs)}

InitHeads ==
    /\ r = EmptyReachability
    /\ types = <<>>
    /\ m = <<>>
    /\ changes = <<>>
    /\ pc = "idle"
    /\ work = <<>>
    /\ pending_edges \in {<<>>, << <<0, 0>> >>}
    /\ type_pairs_to_check = <<>>
    /\ scopes = <<>>
    /\ out = <<>>
    /\ edges = <<>>
    /\ last \in {[op |-> "heads", lhs |-> v, rhs |-> u] : v \in AllVHeads, u \in AllUHeads}
    /\ prev = NoOp
    /\ ncalls = 0

CheckHeads ==
    /\ last.op = "heads"
    /\ LET res == check_heads(last.lhs, last.rhs, pending_edges)
       IN  /\ pending_edges' = res.out
           /\ last' = [op |-> "check_heads", lhs |-> last.lhs, rhs |-> last.rhs,
                       ok |-> res.ok, err |-> res.err, pre_out |-> pending_edges]
    /\ UNCHANGED <<r, types, m, changes, pc, work, type_pairs_to_check, scopes,
                   out, edges, prev, ncalls>>

NextHeads == CheckHeads

SpecHeads == InitHeads /\ [][NextHeads]_vars

\* C10: check_heads follows the rule table. (VBool, UBool) succeeds and emits
\* nothing; (VFunc, UFunc) succeeds and emits exactly (r1, r2) and (a2, a1);
\* (VObj, UObj) emits exactly (fields[name], ru) if name is a field and fails
\* with a missing-field error otherwise; (VCase, UCase) emits exactly
\* (lv, cases[tag]) if tag is a case and fails with an unhandled-case error
\* otherwise; every other pair fails; a failing call emits nothing.
C10_RuleTable ==
    last.op = "check_heads" =>
        LET v == last.lhs
            u == last.rhs
            n == Len(last.pre_out)
            emitted == SubSeq(pending_edges, n + 1, Len(pending_edges))
        IN  /\ Len(pending_edges) >= n
            /\ SubSeq(pending_edges, 1, n) = last.pre_out
            /\ (v.h = "VBool" /\ u.h = "UBool") => (last.ok /\ emitted = <<>>)
            /\ (v.h = "VFunc" /\ u.h = "UFunc") =>
                  /\ last.ok
                  /\ \/ emitted = << <<v.ret, u.ret>>, <<u.arg, v.arg>> >>
                     \/ emitted = << <<u.arg, v.arg>>, <<v.ret, u.ret>> >>
            /\ (v.h = "VObj" /\ u.h = "UObj" /\ u.field[1] \in DOMAIN v.fields) =>
                  (last.ok /\ emitted = << <<v.fields[u.field[1]], u.field[2]>> >>)
            /\ (v.h = "VObj" /\ u.h = "UObj" /\ u.field[1] \notin DOMAIN v.fields) =>
                  (~last.ok /\ last.err = "Missing field")
            /\ (v.h = "VCase" /\ u.h = "UCase" /\ v.case[1] \in DOMAIN u.cases) =>
                  (last.ok /\ emitted = << <<v.case[2], u.cases[v.case[1]]>> >>)
            /\ (v.h = "VCase" /\ u.h = "UCase" /\ v.case[1] \notin DOMAIN u.cases) =>
                  (~last.ok /\ last.err = "Unhandled case")
            /\ (<<v.h, u.h>> \notin {<<"VBool", "UBool">>, <<"VFunc", "UFunc">>,
                                     <<"VObj", "UObj">>, <<"VCase", "UCase">>}) => ~last.ok
            /\ ~last.ok => emitted = <<>>

\* C10 witness: check_heads has decomposed a function pair whose argument and
\* return nodes all differ in a way that tells the two variances apart.
C10_Witness ==
    /\ last.op = "check_heads" /\ last.ok
    /\ last.lhs.h = "VFunc" /\ last.rhs.h = "UFunc"
    /\ last.lhs.arg # last.rhs.arg
    /\ last.pre_out # <<>>

----------------------------------------------------------------------------
\* C2: transitive closure. Whenever add_edge(a, b) and add_edge(b, c) have both
\* been called, in either order, c is in downset[a] and a is in upset[c].
C2_TransitivelyClosed ==
    \A i \in 1..Len(edges), j \in 1..Len(edges) :
        edges[i][2] = edges[j][1] =>
            /\ edges[j][2] \in downset(r, edges[i][1])
            /\ edges[i][1] \in upset(r, edges[j][2])

\* C3: mirror invariant. At the return of add_node or add_edge, n is in
\* downset[m] exactly when m is in upset[n], and an edge once added stays.
C3_Mirror ==
    /\ \A a \in NodeIDs(r), b \in NodeIDs(r) :
          (b \in downset(r, a)) <=> (a \in upset(r, b))
    /\ \A i \in 1..Len(edges) :
          /\ edges[i][2] \in downset(r, edges[i][1])
          /\ edges[i][1] \in upset(r, edges[i][2])

\* C4: no pair is appended to out more than once over the graph's lifetime.
C4_EmittedOnce ==
    \A i \in 1..Len(out), j \in 1..Len(out) : out[i] = out[j] => i = j

\* C4 witness: an edge was added twice and a later call closed a path, so that
\* pairs were emitted by several calls and one call emitted more than one pair.
C4_Witness ==
    /\ \E i \in 1..Len(edges), j \in 1..Len(edges) : i < j /\ edges[i] = edges[j]
    /\ Len(out) >= 2
    /\ last.op = "add_edge" /\ Len(last.emitted) >= 2

\* The reflexive and transitive closure of the edges E over the nodes N, as a
\* set of pairs.
Closure(N, E) == {p \in N \X N : Reaches(p[1], p[2], E)}

\* C14: an add_edge(lhs, rhs) call with rhs not yet in downset[lhs] appends to
\* out exactly the pairs that the call adds to the reference closure: the pairs
\* of the closure of the edges added so far that were not in the closure of the
\* edges added before the call.
C14_EmitsClosureDifference ==
    (last.op = "add_edge" /\ last.rhs \notin downset(last.pre, last.lhs)) =>
        Range(last.emitted) =
            Closure(NodeIDs(r), Range(edges)) \ Closure(NodeIDs(r), Range(Pop(edges)))

\* C15: add_node creates a node whose upset and downset are exactly {id}, and
\* every node is in its own downset and in its own upset.
C15_SelfReachable ==
    /\ last.op = "add_node" =>
          (downset(r, last.id) = {last.id} /\ upset(r, last.id) = {last.id})
    /\ \A n \in NodeIDs(r) : n \in downset(r, n) /\ n \in upset(r, n)

\* C16: add_edge(n, n) appends no pair to out, and no add_edge call ever
\* appends a self-pair (n, n).
C16_NoSelfPairs ==
    /\ (last.op = "add_edge" /\ last.lhs = last.rhs) => last.emitted = <<>>
    /\ \A i \in 1..Len(out) : out[i][1] # out[i][2]

\* C17: add_edge(lhs, rhs) with rhs already in downset[lhs] appends nothing to
\* out and leaves every node's upset and downset as they were.
C17_DuplicateIsNoOp ==
    (last.op = "add_edge" /\ last.rhs \in downset(last.pre, last.lhs)) =>
        /\ last.emitted = <<>>
        /\ r = last.pre

\* C17 witness: an edge between two distinct nodes was added again, on a graph
\* where its target has successors of its own.
C17_Witness ==
    /\ last.op = "add_edge" /\ last.lhs # last.rhs
    /\ last.rhs \in downset(last.pre, last.lhs)
    /\ downset(last.pre, last.rhs) \ {last.rhs} # {}

====
